---- MODULE Spec2Model ----
(***************************************************************************)
(* Verification model of hipcheck/morningbriefing:                         *)
(*   scripts/update_briefing_post.py   (post patcher, read-later saves)    *)
(*   scripts/generate_briefing_data.py (aggregator, text normalizer,       *)
(*                                      diversity selector, history store) *)
(*                                                                         *)
(* Text is modelled as a sequence of tokens.  A token [k, v] stands for a  *)
(* fixed piece of text; k is its kind and v the characters (code points)   *)
(* that take part in URL capture and ordering.                             *)
(***************************************************************************)
EXTENDS Integers, Sequences, FiniteSets, TLC

VARIABLES
    pc,                 \* position of the running script
    md,                 \* the Markdown document read by update_briefing_post.main
    hn_url_to_discuss,  \* map story URL -> discussion URL
    md2,                \* add_hn_discussion_links(md, map)
    md2b,               \* add_hn_discussion_links(md2, map)
    token,              \* READWISE_TOKEN is set
    urls,               \* update_briefing_post.main: the set of URLs to save
    queue,              \* sorted(urls), the part the loop has not reached yet
    calls,              \* URLs save_to_readwise_reader was called with, in order
    ok_count,
    err_count,
    rc,                 \* exit status of update_briefing_post.main (-1: running)
    frag,               \* a markup fragment handed to html_to_text
    text1,              \* html_to_text(frag)
    text2,              \* html_to_text(text1)
    comment,            \* comment_text of a hit / content of a comment entry
    excerpt,            \* the excerpt stored for it
    author,             \* _looks_like_official_account: author
    subreddit,          \* _looks_like_official_account: subreddit
    official,           \* its result (FALSE before the call)
    seed,               \* pick_antibubble_items: now_utc.date().isoformat()
    pick_n,             \* pick_antibubble_items: n, the number of picks asked for
    feeds,              \* entries of each source's feed document
    hist_file,          \* content of ANTI_BUBBLE_HISTORY_PATH (<<>>: no file)
    run,                \* number of the selection run
    ppc,                \* position inside pick_antibubble_items
    ordered_sources,
    pos,                \* index of the for loop in ordered_sources
    history,
    picks,
    used_domains,
    fetched,            \* sources whose feed was fetched in this run, in order
    returned,           \* the list pick_antibubble_items returned
    first_run,          \* what the first run loaded, returned and stored
    saved,              \* last argument of _save_antibubble_history
    stored,             \* that call wrote the file
    reads,              \* calls of _load_antibubble_history in this run
    writes,             \* calls of _save_antibubble_history in this run
    out,                \* generate_briefing_data.main: the snapshot
    categories,         \* source categories whose fetch has returned
    raised,             \* the response main died on ("" if none)
    printed,            \* the snapshot was printed
    reddit_resp,        \* fetch_reddit_sub_rss: kind of answer of the feed GET
    reddit_feed,        \* its entries, in feed order
    reddit_sub,         \* fetch_reddit_sub_rss: sub
    desired,
    max_fetch,
    reddit_out,         \* what fetch_reddit_sub_rss returned
    yt_feeds,           \* the uploads in each pool channel's feed
    candidates,         \* pick_youtube_videos: the uploads fetched from the pool
    yt_n,               \* pick_youtube_videos: n
    picked,             \* what pick_youtube_videos returned
    videos              \* upsert_youtube_section: videos

patchVars == <<md, hn_url_to_discuss, md2, md2b>>
saveVars == <<token, urls, queue, calls, ok_count, err_count, rc>>
textVars == <<frag, text1, text2, comment, excerpt, author, subreddit, official>>

pickVars == <<seed, pick_n, feeds, hist_file, run, ppc, ordered_sources, pos, history,
              picks, used_domains, fetched, returned, first_run, saved, stored,
              reads, writes>>
dataVars == <<out, categories, raised, printed>>

redditVars == <<reddit_resp, reddit_feed, reddit_sub, desired, max_fetch, reddit_out>>
ytVars == <<yt_feeds, candidates, yt_n, picked, videos>>

\* what the actions of one script leave alone: the state of the others
OutsidePost == <<textVars, pickVars, dataVars, redditVars, ytVars>>
OutsideText == <<patchVars, saveVars, pickVars, dataVars, redditVars, ytVars>>
OutsideData == <<patchVars, saveVars, textVars, redditVars, ytVars>>
OutsideReddit == <<patchVars, saveVars, textVars, pickVars, dataVars, ytVars>>
OutsideYt == <<saveVars, textVars, pickVars, dataVars, redditVars>>

(***************************************************************************)
(* Generic sequence helpers                                                *)
(***************************************************************************)
Max(a, b) == IF a >= b THEN a ELSE b
Min(a, b) == IF a <= b THEN a ELSE b

\* s[a..b] with 1-based inclusive indices, empty when a > b (a Python slice)
Slice(s, a, b) == IF a > b THEN <<>> ELSE SubSeq(s, a, b)

RECURSIVE Flatten(_)
Flatten(ss) == IF ss = <<>> THEN <<>> ELSE Head(ss) \o Flatten(Tail(ss))

RECURSIVE SeqsUpTo(_, _)
\* all sequences over S of length at most n
SeqsUpTo(S, n) ==
    IF n = 0 THEN {<<>>}
    ELSE LET shorter == SeqsUpTo(S, n - 1)
         IN  shorter \cup {Append(s, x) : s \in {t \in shorter : Len(t) = n - 1}, x \in S}

(***************************************************************************)
(* Markdown tokens                                                         *)
(***************************************************************************)
Tok(k, v) == [k |-> k, v |-> v]

NL == Tok("NL", <<>>)              \* "\n"
SP == Tok("SP", <<>>)              \* " "
HNH == Tok("H", <<>>)              \* "## A) Hacker News — Top 5"
ANTIH == Tok("A", <<>>)            \* "## C) Anti-bubble picks (outside ...)"
OTHERH == Tok("O", <<>>)           \* "## B) Reddit" : any other level-2 heading
TXT == Tok("T", <<3>>)             \* a word without whitespace
LK(u) == Tok("LK", u)              \* "Link: <u>"
BL(u) == Tok("BL", u)              \* "- **Link:** <u>"
HD(d) == Tok("HD", d)              \* "HN discussion: <d>"

IsWs(t) == t.k \in {"NL", "SP"}
\* tokens whose text holds no whitespace at all: \S+ runs over them
IsSolid(t) == t.k = "T"
\* tokens whose text starts with "## " (the pattern ^##\s+ of extract_section)
IsH2(t) == t.k \in {"H", "A", "O"}

\* str.lstrip(), str.rstrip(), str.strip()
RECURSIVE LStrip(_)
LStrip(s) == IF s # <<>> /\ IsWs(Head(s)) THEN LStrip(Tail(s)) ELSE s
RECURSIVE RStrip(_)
RStrip(s) == IF s # <<>> /\ IsWs(s[Len(s)]) THEN RStrip(Slice(s, 1, Len(s) - 1)) ELSE s
Strip(s) == RStrip(LStrip(s))

\* str.splitlines(keepends=True)
RECURSIVE SplitLines(_)
SplitLines(s) ==
    IF s = <<>> THEN <<>>
    ELSE LET nls == {i \in 1..Len(s) : s[i] = NL}
         IN  IF nls = {} THEN <<s>>
             ELSE LET i == CHOOSE x \in nls : \A y \in nls : x <= y
                  IN  <<Slice(s, 1, i)>> \o SplitLines(Slice(s, i + 1, Len(s)))

\* ^ under re.M at 1-based position i of s
AtLineStart(s, i) == i = 1 \/ s[i - 1] = NL
\* $ under re.M at offset p (p tokens consumed)
AtLineEnd(s, p) == p = Len(s) \/ s[p + 1] = NL

(***************************************************************************)
(* extract_section                                                         *)
(***************************************************************************)
\* Offsets e at which  <heading>\s*$  can end when the heading token is at i
HeaderEnds(s, i) ==
    {e \in i..Len(s) : (\A j \in (i + 1)..e : IsWs(s[j])) /\ AtLineEnd(s, e)}

\* header_re.search(md): the first heading of kind k that matches; \s* is greedy
\* m.end() of that match, or -1 when there is none
HeaderSearchEnd(s, k) ==
    LET hits == {i \in 1..Len(s) : s[i].k = k /\ AtLineStart(s, i) /\ HeaderEnds(s, i) # {}}
    IN  IF hits = {} THEN -1
        ELSE LET i == CHOOSE x \in hits : \A y \in hits : x <= y
                 E == HeaderEnds(s, i)
             IN  CHOOSE e \in E : \A f \in E : f <= e

\* m.start() of the same match (1-based position of the heading token), or 0
HeaderSearchStart(s, k) ==
    LET hits == {i \in 1..Len(s) : s[i].k = k /\ AtLineStart(s, i) /\ HeaderEnds(s, i) # {}}
    IN  IF hits = {} THEN 0 ELSE CHOOSE x \in hits : \A y \in hits : x <= y

\* re.search(r"^##\s+", rest, re.M): offset of the first match in rest, or -1
NextH2(rest) ==
    LET hits == {i \in 1..Len(rest) : IsH2(rest[i]) /\ AtLineStart(rest, i)}
    IN  IF hits = {} THEN -1 ELSE (CHOOSE x \in hits : \A y \in hits : x <= y) - 1

\* extract_section without the search for the next heading: the section runs
\* to the end of the document
extract_section_ToEof(s, k) ==
    LET start == HeaderSearchEnd(s, k)
    IN  IF start = -1 THEN <<-1, -1>> ELSE <<start, Len(s)>>

\* extract_section(md, header_re): <<start, end>> offsets, or <<-1, -1>> for None
extract_section(s, k) ==
    LET start == HeaderSearchEnd(s, k)
    IN  IF start = -1 THEN <<-1, -1>>
        ELSE LET m2 == NextH2(Slice(s, start + 1, Len(s)))
             IN  <<start, IF m2 = -1 THEN Len(s) ELSE start + m2>>

(***************************************************************************)
(* add_hn_discussion_links                                                 *)
(***************************************************************************)
\* the URL captured by  ^Link:\s*(https?://\S+)\s*$  on an already stripped
\* line, or <<>> when the line does not match
RECURSIVE CatV(_)
CatV(s) == IF s = <<>> THEN <<>> ELSE Head(s).v \o CatV(Tail(s))

LinkLineUrl(stripped) ==
    IF /\ stripped # <<>>
       /\ stripped[1].k = "LK"
       /\ \A j \in 2..Len(stripped) : IsSolid(stripped[j])
    THEN CatV(stripped)
    ELSE <<>>

\* hn_url_to_discuss.get(url): <<>> stands for None
MapGet(m, url) == IF url \in DOMAIN m THEN m[url] ELSE <<>>

\* index of the next line after i that is not blank (Len + 1 when none)
RECURSIVE NextNonBlank(_, _)
NextNonBlank(lines, j) ==
    IF j <= Len(lines) /\ Strip(lines[j]) = <<>> THEN NextNonBlank(lines, j + 1) ELSE j

StartsWithHD(line) == LET l == LStrip(line) IN l # <<>> /\ l[1].k = "HD"

AlreadyFollowed_Never(lines, i) == FALSE

\* "the next non-empty line is already an HN discussion link"
AlreadyFollowed(lines, i) ==
    LET j == NextNonBlank(lines, i + 1)
    IN  j <= Len(lines) /\ StartsWithHD(lines[j])

\* what the loop body appends to out_lines for line i
PatchLine(lines, i, m) ==
    LET line == lines[i]
        url == LinkLineUrl(Strip(line))
        discuss == MapGet(m, url)
    IN  IF url # <<>> /\ discuss # <<>> /\ ~AlreadyFollowed(lines, i)
        THEN <<line, <<HD(discuss), NL>>, <<NL>>>>
        ELSE <<line>>

RECURSIVE PatchLines(_, _, _)
PatchLines(lines, i, m) ==
    IF i > Len(lines) THEN <<>>
    ELSE PatchLine(lines, i, m) \o PatchLines(lines, i + 1, m)

add_hn_discussion_links(s, m) ==
    LET sec == extract_section(s, "H")
    IN  IF sec[1] = -1 THEN s
        ELSE LET before == Slice(s, 1, sec[1])
                 mid == Slice(s, sec[1] + 1, sec[2])
                 after == Slice(s, sec[2] + 1, Len(s))
             IN  before \o Flatten(PatchLines(SplitLines(mid), 1, m)) \o after

(***************************************************************************)
(* Documents and maps the patcher is run on                                *)
(***************************************************************************)
MaxLines == 4

U1 == <<1>>
U2 == <<1, 2>>
D1 == <<7>>
D2 == <<8>>

PatchLineSet ==
    { <<HNH>>, <<OTHERH>>, <<>>, <<SP>>, <<TXT>>,
      <<LK(U1)>>, <<SP, LK(U1)>>, <<LK(U2)>>, <<HD(D2)>> }

\* lines joined by "\n"; the last line may lack its newline
JoinLines(ls, trailing) ==
    Flatten([i \in 1..Len(ls) |->
                IF i < Len(ls) \/ trailing THEN Append(ls[i], NL) ELSE ls[i]])

PatchDocs ==
    {JoinLines(ls, tr) : ls \in SeqsUpTo(PatchLineSet, MaxLines), tr \in BOOLEAN}

PatchMaps ==
    { <<>>, (U1 :> D1), (U1 :> D1) @@ (U2 :> D2) }

IdleSave ==
    /\ token = FALSE
    /\ urls = {}
    /\ queue = <<>>
    /\ calls = <<>>
    /\ ok_count = 0
    /\ err_count = 0
    /\ rc = -1

IdleText ==
    /\ frag = <<>>
    /\ text1 = <<>>
    /\ text2 = <<>>
    /\ comment = <<>>
    /\ excerpt = <<>>
    /\ author = <<>>
    /\ subreddit = <<>>
    /\ official = FALSE

IdlePick ==
    /\ seed = ""
    /\ pick_n = 0
    /\ feeds = <<>>
    /\ hist_file = <<>>
    /\ run = 0
    /\ ppc = "idle"
    /\ ordered_sources = <<>>
    /\ pos = 0
    /\ history = <<>>
    /\ picks = <<>>
    /\ used_domains = {}
    /\ fetched = <<>>
    /\ returned = <<>>
    /\ first_run = <<>>
    /\ saved = <<>>
    /\ stored = FALSE
    /\ reads = 0
    /\ writes = 0

IdleData ==
    /\ out = <<>>
    /\ categories = {}
    /\ raised = ""
    /\ printed = FALSE

IdleReddit ==
    /\ reddit_resp = ""
    /\ reddit_feed = <<>>
    /\ reddit_sub = <<>>
    /\ desired = 0
    /\ max_fetch = 0
    /\ reddit_out = <<>>

IdleYt ==
    /\ yt_feeds = <<>>
    /\ candidates = <<>>
    /\ yt_n = 0
    /\ picked = <<>>
    /\ videos = <<>>

InitPatch ==
    /\ IdleReddit
    /\ IdleYt
    /\ pc = "patch"
    /\ IdleSave
    /\ IdleText
    /\ IdlePick
    /\ IdleData
    /\ md \in PatchDocs
    /\ hn_url_to_discuss \in PatchMaps
    /\ md2 = <<>>
    /\ md2b = <<>>

Patch ==
    /\ pc = "patch"
    /\ md2' = add_hn_discussion_links(md, hn_url_to_discuss)
    /\ pc' = "repatch"
    /\ UNCHANGED <<md, hn_url_to_discuss, md2b, saveVars, OutsidePost>>

RePatch ==
    /\ pc = "repatch"
    /\ md2b' = add_hn_discussion_links(md2, hn_url_to_discuss)
    /\ pc' = "patched"
    /\ UNCHANGED <<md, hn_url_to_discuss, md2, saveVars, OutsidePost>>

vars == <<pc, patchVars, saveVars, OutsidePost>>

NextPatch == Patch \/ RePatch

SpecPatch == InitPatch /\ [][NextPatch]_vars

(***************************************************************************)
(* Claims about add_hn_discussion_links                                    *)
(***************************************************************************)
CountKind(s, k) == Cardinality({i \in 1..Len(s) : s[i].k = k})

\* C1: add_hn_discussion_links is idempotent: patching the patched document
\* again with the same map returns it unchanged, so re-patching adds no
\* second "HN discussion:" line anywhere.
C1_Idempotent ==
    pc = "patched" =>
        /\ md2b = md2
        /\ CountKind(md2b, "HD") = CountKind(md2, "HD")

\* the first patch inserted a discussion line and the second pass ran
C1_Witness ==
    /\ pc = "patched"
    /\ CountKind(md2, "HD") > CountKind(md, "HD")
    /\ md2b = md2

\* the lines of the Hacker News section of the input
HnSectionLines(s) ==
    LET sec == extract_section(s, "H")
    IN  IF sec[1] = -1 THEN <<>> ELSE SplitLines(Slice(s, sec[1] + 1, sec[2]))

\* the lines of the rewritten section body of the output: what lies between
\* the unchanged text before the section and the unchanged text after it
HnOutputLines(s, res) ==
    LET sec == extract_section(s, "H")
    IN  IF sec[1] = -1 THEN <<>>
        ELSE SplitLines(Slice(res, sec[1] + 1, Len(res) - (Len(s) - sec[2])))

\* line i is a "Link: URL" line with a map entry and no discussion line after it
NeedsLink(lines, i, m) ==
    /\ LinkLineUrl(Strip(lines[i])) # <<>>
    /\ MapGet(m, LinkLineUrl(Strip(lines[i]))) # <<>>
    /\ ~(LET j == NextNonBlank(lines, i + 1)
         IN  j <= Len(lines) /\ StartsWithHD(lines[j]))

\* C2: every link line of the section that has a map entry and no discussion
\* line yet is output as its own line, followed by the line
\* "HN discussion: <resolved-url>" and a blank line, wherever it stands,
\* the unterminated last line of the document included.
C2_LinkLineThenDiscussion ==
    pc \in {"repatch", "patched"} =>
        LET lines == HnSectionLines(md)
            outl == HnOutputLines(md, md2)
            m == hn_url_to_discuss
        IN  \A i \in 1..Len(lines) :
                NeedsLink(lines, i, m) =>
                    LET k == i + 2 * Cardinality({h \in 1..(i - 1) : NeedsLink(lines, h, m)})
                    IN  /\ k + 2 <= Len(outl)
                        /\ outl[k] \in {lines[i], Append(lines[i], NL)}
                        /\ outl[k + 1] = <<HD(MapGet(m, LinkLineUrl(Strip(lines[i])))), NL>>
                        /\ outl[k + 2] = <<NL>>

\* the same statement for link lines that end with a newline
C2_TerminatedLinkLines ==
    pc \in {"repatch", "patched"} =>
        LET lines == HnSectionLines(md)
            outl == HnOutputLines(md, md2)
            m == hn_url_to_discuss
        IN  \A i \in 1..Len(lines) :
                (NeedsLink(lines, i, m) /\ lines[i][Len(lines[i])] = NL) =>
                    LET k == i + 2 * Cardinality({h \in 1..(i - 1) : NeedsLink(lines, h, m)})
                    IN  /\ k + 2 <= Len(outl)
                        /\ outl[k] = lines[i]
                        /\ outl[k + 1] = <<HD(MapGet(m, LinkLineUrl(Strip(lines[i])))), NL>>
                        /\ outl[k + 2] = <<NL>>

(***************************************************************************)
(* update_briefing_post.main: discussion map, patch, Readwise saves        *)
(***************************************************************************)
\* \s*$ can match from offset p on: whitespace up to some end of line
WsThenEol(s, p) ==
    \E e \in p..Len(s) : (\A j \in (p + 1)..e : IsWs(s[j])) /\ AtLineEnd(s, e)

\* last position of the run of whitespace-free tokens that \S+ takes after i
RECURSIVE SolidEnd(_, _)
SolidEnd(s, i) == IF i < Len(s) /\ IsSolid(s[i + 1]) THEN SolidEnd(s, i + 1) ELSE i

\* LINK_LINE_RE.finditer(text) with _first_url_match and strip(): the URLs of
\* the lines "- **Link:** URL" and "Link: URL", both anchored at a line start
LinkLineMatches(s) ==
    {i \in 1..Len(s) : /\ s[i].k \in {"LK", "BL"}
                       /\ AtLineStart(s, i)
                       /\ WsThenEol(s, SolidEnd(s, i))}

SectionUrls(s, k) ==
    LET sec == extract_section(s, k)
    IN  IF sec[1] = -1 THEN {}
        ELSE LET body == Slice(s, sec[1] + 1, sec[2])
             IN  {CatV(Slice(body, i, SolidEnd(body, i))) : i \in LinkLineMatches(body)}

\* str < str : lexicographic by code point
RECURSIVE LexLess(_, _)
LexLess(a, b) ==
    IF b = <<>> THEN FALSE
    ELSE IF a = <<>> THEN TRUE
    ELSE IF Head(a) # Head(b) THEN Head(a) < Head(b)
    ELSE LexLess(Tail(a), Tail(b))

\* sorted(urls)
RECURSIVE Sorted(_)
Sorted(S) ==
    IF S = {} THEN <<>>
    ELSE LET m == CHOOSE x \in S : \A y \in S \ {x} : LexLess(x, y)
         IN  <<m>> \o Sorted(S \ {m})

\* hn_discussion_from_algolia(u) is a story link or None: the discussion URL
\* of story u when the search resolves it
DiscussOf(u) == <<9>> \o u

MaxMainLines == 4

U3 == <<2>>

MainLineSet ==
    { <<HNH>>, <<ANTIH>>, <<OTHERH>>, <<TXT>>,
      <<LK(U1)>>, <<LK(U2)>>, <<BL(U3)>>, <<BL(U1)>> }

MainDocs ==
    {JoinLines(ls, tr) : ls \in SeqsUpTo(MainLineSet, MaxMainLines), tr \in BOOLEAN}

InitMainPost ==
    /\ IdleReddit
    /\ IdleYt
    /\ pc = "main"
    /\ md \in MainDocs
    /\ token \in BOOLEAN
    /\ hn_url_to_discuss = <<>>
    /\ md2 = <<>>
    /\ md2b = <<>>
    /\ urls = {}
    /\ queue = <<>>
    /\ calls = <<>>
    /\ ok_count = 0
    /\ err_count = 0
    /\ rc = -1
    /\ IdleText
    /\ IdlePick
    /\ IdleData

\* lines 367-382: resolve every link of the section, then patch
MainPatch ==
    /\ pc = "main"
    /\ \E resolved \in SUBSET SectionUrls(md, "H") :
          LET m == [u \in resolved |-> DiscussOf(u)]
          IN  /\ hn_url_to_discuss' = m
              /\ md2' = add_hn_discussion_links(md, m)
    /\ pc' = "collect"
    /\ UNCHANGED <<md, md2b, saveVars, OutsidePost>>

\* lines 394-420: token check and URL collection from md2
MainCollect ==
    /\ pc = "collect"
    /\ IF ~token
       THEN /\ rc' = 0
            /\ pc' = "exit"
            /\ UNCHANGED <<urls, queue>>
       ELSE LET found == SectionUrls(md2, "H") \cup SectionUrls(md2, "A")
            IN  /\ urls' = found
                /\ IF found = {}
                   THEN /\ rc' = 0
                        /\ pc' = "exit"
                        /\ UNCHANGED queue
                   ELSE /\ queue' = Sorted(found)
                        /\ pc' = "saving"
                        /\ UNCHANGED rc
    /\ UNCHANGED <<patchVars, token, calls, ok_count, err_count, OutsidePost>>

SaveOutcomes == {"2xx", "non2xx", "error"}

\* save_to_readwise_reader: success only for a 2xx answer; every exception
\* is caught and returned as a failure
save_to_readwise_reader(outcome) == outcome = "2xx"

RestAfterSave_AbortOnFailure(q, success) == IF success THEN Tail(q) ELSE <<>>

\* the for loop goes on to the next URL whatever the save returned
RestAfterSave(q, success) == Tail(q)

\* lines 424-430: one iteration of the save loop
SaveOne ==
    /\ pc = "saving"
    /\ queue # <<>>
    /\ \E outcome \in SaveOutcomes :
          LET success == save_to_readwise_reader(outcome)
          IN  /\ calls' = Append(calls, Head(queue))
              /\ ok_count' = IF success THEN ok_count + 1 ELSE ok_count
              /\ err_count' = IF success THEN err_count ELSE err_count + 1
              /\ queue' = RestAfterSave(queue, success)
    /\ UNCHANGED <<pc, patchVars, token, urls, rc, OutsidePost>>

\* lines 432-433: the tally and the exit status
SaveDone ==
    /\ pc = "saving"
    /\ queue = <<>>
    /\ rc' = IF err_count = 0 THEN 0 ELSE 1
    /\ pc' = "exit"
    /\ UNCHANGED <<patchVars, token, urls, queue, calls, ok_count, err_count, OutsidePost>>

NextMainPost == MainPatch \/ MainCollect \/ SaveOne \/ SaveDone

SpecMainPost == InitMainPost /\ [][NextMainPost]_vars

\* C7: with a token and a non-empty URL set, main calls the save once for
\* every distinct collected URL, in ascending lexicographic order, goes on
\* after a failed save, and ends with ok_count + err_count = number of URLs.
C7_SaveEveryUrlInOrder ==
    LET all == SectionUrls(md2, "H") \cup SectionUrls(md2, "A")
    IN  /\ (pc = "saving") =>
            /\ Len(calls) + Len(queue) = Cardinality(all)
            /\ ok_count + err_count = Len(calls)
        /\ (pc = "exit" /\ token /\ all # {}) =>
            /\ Len(calls) = Cardinality(all)
            /\ {calls[i] : i \in 1..Len(calls)} = all
            /\ \A i, j \in 1..Len(calls) : i < j => LexLess(calls[i], calls[j])
            /\ ok_count + err_count = Cardinality(all)
            /\ rc = (IF err_count = 0 THEN 0 ELSE 1)

\* three URLs were saved in order although the first two saves failed
C7_Witness ==
    /\ pc = "exit"
    /\ token
    /\ Len(calls) >= 3
    /\ err_count >= 2
    /\ ok_count >= 1
    /\ calls[1] = U1 /\ calls[2] = U2

(***************************************************************************)
(* html_to_text                                                            *)
(*                                                                         *)
(* Markup is a sequence of pieces, each a string naming its text:          *)
(*   "&" "amp;" "lt;" "gt;"  an ampersand and the rest of an entity        *)
(*   "<" ">"                 angle brackets                                *)
(*   "br" "p" "code" "b"     words (also the tag names of the patterns)    *)
(*   "sp" "nl" "cr"          " ", "\n", "\r"                               *)
(*   "AO" "AC"               <a href="h"> and </a>                         *)
(*   "h" "(h)"               the href text, bare and in parentheses        *)
(***************************************************************************)
IsSpaceCh(c) == c \in {"sp", "nl", "cr"}
\* pieces whose last character is ">"
EndsTag(c) == c \in {">", "AO", "AC"}

EntityChar(name) ==
    CASE name = "amp;" -> "&"
      [] name = "lt;" -> "<"
      [] name = "gt;" -> ">"

\* re.sub(pattern, repl, s) for the pattern named pat, defined below with
\* MatchEnd and Replacement
RECURSIVE ReSub(_, _)

ReplNewline(s, i, e) == <<"nl">>
ReplNothing(s, i, e) == <<>>

\* html.unescape: &amp; &lt; &gt; in one left-to-right pass
EntityEnd(s, i) ==
    IF s[i] = "&" /\ i < Len(s) /\ s[i + 1] \in {"amp;", "lt;", "gt;"} THEN i + 1 ELSE 0
ReplEntity(s, i, e) == <<EntityChar(s[e])>>
Unescape(s) == ReSub("entity", s)

\* first index >= i that holds no whitespace (Len + 1 when none)
RECURSIVE SkipSpace(_, _)
SkipSpace(s, i) == IF i <= Len(s) /\ IsSpaceCh(s[i]) THEN SkipSpace(s, i + 1) ELSE i

\* first index >= i whose piece ends with ">" (0 when none)
FirstClose(s, i) ==
    LET c == {k \in i..Len(s) : EndsTag(s[k])}
    IN  IF c = {} THEN 0 ELSE CHOOSE k \in c : \A l \in c : k <= l

\* <\s*(br|/p|/div|/li|/pre|/blockquote)\s*>
BlockCloseEnd(s, i) ==
    IF s[i] # "<" THEN 0
    ELSE LET j == SkipSpace(s, i + 1)
         IN  IF j <= Len(s) /\ s[j] \in {"br", "/p"}
             THEN LET k == SkipSpace(s, j + 1)
                  IN  IF k <= Len(s) /\ s[k] = ">" THEN k ELSE 0
             ELSE 0

\* <\s*(p|div|li|pre|blockquote)(\s+[^>]*)?>
BlockOpenEnd(s, i) ==
    IF s[i] # "<" THEN 0
    ELSE LET j == SkipSpace(s, i + 1)
         IN  IF j <= Len(s) /\ s[j] = "p"
             THEN IF j < Len(s) /\ s[j + 1] = ">" THEN j + 1
                  ELSE IF j < Len(s) /\ IsSpaceCh(s[j + 1]) THEN FirstClose(s, j + 2)
                  ELSE 0
             ELSE 0

\* </?code[^>]*>
CodeTagEnd(s, i) ==
    IF s[i] = "<" /\ i < Len(s) /\ s[i + 1] \in {"code", "/code"}
    THEN FirstClose(s, i + 2)
    ELSE 0

\* <[^>]+>
AnyTagEnd(s, i) ==
    IF s[i] \in {"AO", "AC"} THEN i
    ELSE IF s[i] = "<" /\ i < Len(s) /\ s[i + 1] # ">" THEN FirstClose(s, i + 1)
    ELSE 0

SubBlockClose(s) == ReSub("block_close", s)
SubBlockOpen(s) == ReSub("block_open", s)
SubCodeTag(s) == ReSub("code_tag", s)
SubAnyTag(s) == ReSub("any_tag", s)

\* str.strip() on markup pieces
LStripCh(s) ==
    LET keep == {i \in 1..Len(s) : ~IsSpaceCh(s[i])}
    IN  IF keep = {} THEN <<>>
        ELSE Slice(s, CHOOSE i \in keep : \A j \in keep : i <= j, Len(s))
RStripCh(s) ==
    LET keep == {i \in 1..Len(s) : ~IsSpaceCh(s[i])}
    IN  IF keep = {} THEN <<>>
        ELSE Slice(s, 1, CHOOSE i \in keep : \A j \in keep : j <= i)
StripCh(s) == RStripCh(LStripCh(s))

\* the local function _a of html_to_text, for the href "h"
AnchorText(inner) ==
    LET text == StripCh(Unescape(SubAnyTag(inner)))
        hrefInText == \E i \in 1..Len(text) : text[i] \in {"h", "(h)"}
    IN  IF text # <<>> /\ ~hrefInText THEN text \o <<"sp", "(h)">>
        ELSE IF text # <<>> THEN text
        ELSE <<"h">>

\* <a\s+[^>]*href=['"]([^'"]+)['"][^>]*>(.*?)</a> : up to the first </a>
AnchorEnd(s, i) ==
    LET closes == {k \in (i + 1)..Len(s) : s[k] = "AC"}
    IN  IF s[i] = "AO" /\ closes # {}
        THEN CHOOSE x \in closes : \A y \in closes : x <= y
        ELSE 0
ReplAnchor(s, i, e) == AnchorText(Slice(s, i + 1, e - 1))
SubAnchor(s) == ReSub("anchor", s)

\* re.sub(r"\r", "", s)
SubCr(s) == SelectSeq(s, LAMBDA c : c # "cr")

\* last index of the run of pieces c that starts at s[i] (i - 1 when s[i] # c)
RunEnd(s, i, c) ==
    LET stops == {k \in i..Len(s) : s[k] # c}
    IN  IF stops = {} THEN Len(s) ELSE (CHOOSE k \in stops : \A l \in stops : k <= l) - 1

\* \n[ \t\f\v]*\n+  replaced by "\n\n"
BlankLinesEnd(s, i) ==
    IF s[i] # "nl" THEN 0
    ELSE LET sp == RunEnd(s, i + 1, "sp")
             nls == RunEnd(s, sp + 1, "nl")
         IN  IF nls > sp THEN nls ELSE 0
ReplBlankLine(s, i, e) == <<"nl", "nl">>
SubBlankLines(s) == ReSub("blank_lines", s)

\* [ \t\f\v]+  replaced by " "
SpacesEnd(s, i) == IF s[i] = "sp" THEN RunEnd(s, i, "sp") ELSE 0
ReplSpace(s, i, e) == <<"sp">>
SubSpaces(s) == ReSub("spaces", s)

\* the literal "\n\n" of txt.replace("\n\n", " ")
TwoNewlinesEnd(s, i) == IF s[i] = "nl" /\ i < Len(s) /\ s[i + 1] = "nl" THEN i + 1 ELSE 0

\* last index of the match of pattern pat that starts at s[i], 0 when none
MatchEnd(pat, s, i) ==
    CASE pat = "entity" -> EntityEnd(s, i)
      [] pat = "block_close" -> BlockCloseEnd(s, i)
      [] pat = "block_open" -> BlockOpenEnd(s, i)
      [] pat = "anchor" -> AnchorEnd(s, i)
      [] pat = "code_tag" -> CodeTagEnd(s, i)
      [] pat = "any_tag" -> AnyTagEnd(s, i)
      [] pat = "blank_lines" -> BlankLinesEnd(s, i)
      [] pat = "spaces" -> SpacesEnd(s, i)
      [] pat = "two_newlines" -> TwoNewlinesEnd(s, i)

\* what the match s[i..e] of pattern pat is replaced by
Replacement(pat, s, i, e) ==
    CASE pat = "entity" -> ReplEntity(s, i, e)
      [] pat = "block_close" -> ReplNewline(s, i, e)
      [] pat = "block_open" -> ReplNewline(s, i, e)
      [] pat = "anchor" -> ReplAnchor(s, i, e)
      [] pat = "code_tag" -> ReplNothing(s, i, e)
      [] pat = "any_tag" -> ReplNothing(s, i, e)
      [] pat = "blank_lines" -> ReplBlankLine(s, i, e)
      [] pat = "spaces" -> ReplSpace(s, i, e)
      [] pat = "two_newlines" -> ReplSpace(s, i, e)

\* matches are taken leftmost first and the search goes on after each match;
\* replaced text is not scanned again
ReSub(pat, s) ==
    LET starts == {i \in 1..Len(s) : MatchEnd(pat, s, i) > 0}
    IN  IF starts = {} THEN s
        ELSE LET i == CHOOSE x \in starts : \A y \in starts : x <= y
                 e == MatchEnd(pat, s, i)
             IN  Slice(s, 1, i - 1) \o Replacement(pat, s, i, e)
                     \o ReSub(pat, Slice(s, e + 1, Len(s)))

html_to_text(s) ==
    IF s = <<>> THEN <<>>
    ELSE StripCh(SubSpaces(SubBlankLines(SubCr(
             SubAnyTag(SubCodeTag(SubAnchor(
                 SubBlockOpen(SubBlockClose(Unescape(s))))))))))

(***************************************************************************)
(* Comment excerpts (fetch_hn_top_comments_algolia, fetch_reddit_comments_rss) *)
(***************************************************************************)
ExcerptMax == 520

\* str.replace("\n\n", " ")
ReplaceBlankLine(s) == ReSub("two_newlines", s)

\* txt = html_to_text(...); txt = txt.replace("\n\n", " ").strip()
CommentText(raw) == StripCh(ReplaceBlankLine(html_to_text(raw)))

\* txt.rsplit(" ", 1)[0]
RSplitFirst(s) ==
    LET sps == {i \in 1..Len(s) : s[i] = "sp"}
    IN  IF sps = {} THEN s
        ELSE Slice(s, 1, (CHOOSE i \in sps : \A j \in sps : j <= i) - 1)

\* if len(txt) > 520: txt = txt[:520].rsplit(" ", 1)[0] + ellipsis ("ellipsis": one character)
Truncate(txt) ==
    IF Len(txt) > ExcerptMax
    THEN Append(RSplitFirst(Slice(txt, 1, ExcerptMax)), "ellipsis")
    ELSE txt

(***************************************************************************)
(* _looks_like_official_account                                            *)
(*                                                                         *)
(* Names are sequences of pieces: "/", "_", letters ("u", "s", upper case  *)
(* "U", "S"), "sp", and the words "official" and "automoderator" in both   *)
(* spellings.                                                              *)
(***************************************************************************)
LowerCh(c) ==
    CASE c = "U" -> "u"
      [] c = "S" -> "s"
      [] c = "Official" -> "official"
      [] c = "AutoModerator" -> "automoderator"
      [] c = "AEON.CO" -> "aeon.co"
      [] c = "Weekly" -> "weekly"
      [] OTHER -> c

\* str.lower()
Lower(s) == [i \in 1..Len(s) |-> LowerCh(s[i])]

\* str.lstrip(chars): drops every leading character that is in chars
RECURSIVE LStripChars(_, _)
LStripChars(s, chars) ==
    IF s # <<>> /\ Head(s) \in chars THEN LStripChars(Tail(s), chars) ELSE s

\* str.removeprefix: drops the prefix once, when the string starts with it
RemovePrefix(s, pre) ==
    IF Len(s) >= Len(pre) /\ Slice(s, 1, Len(pre)) = pre
    THEN Slice(s, Len(pre) + 1, Len(s))
    ELSE s

\* a = (author or "").strip().lstrip("/u/").lower()
NormalizeAuthor(a) == Lower(LStripChars(StripCh(a), {"/", "u"}))

_looks_like_official_account(a0, sub) ==
    LET a == NormalizeAuthor(a0)
        s == Lower(sub)
    IN  IF a = <<>> THEN FALSE
        ELSE IF a = <<"automoderator">> THEN TRUE
        ELSE IF \E i \in 1..Len(a) : a[i] = "official" THEN TRUE
        ELSE IF a = s \/ a = s \o <<"_", "official">> \/ a = s \o <<"official">> THEN TRUE
        ELSE FALSE

(***************************************************************************)
(* The text functions applied to their inputs                              *)
(***************************************************************************)
MaxFragLen == 4
MaxAuthorLen == 3

FragAlphabets ==
    { {"&", "amp;", "lt;", "gt;", "b", "sp"},
      {"<", ">", "br", "p", "code", "b", "sp", "nl"},
      {"AO", "AC", "h", "b", "<", "&", "lt;"} }

Fragments == UNION {SeqsUpTo(A, MaxFragLen) : A \in FragAlphabets}

\* comment texts around the excerpt limit: words of "b" with single spaces
\* at some of the marked positions
CommentSpacePositions == {2, ExcerptMax - 1, ExcerptMax, ExcerptMax + 1}
CommentLengths == (ExcerptMax - 1)..(ExcerptMax + 2)
Comments ==
    {[i \in 1..n |-> IF i \in P THEN "sp" ELSE "b"] :
        n \in CommentLengths, P \in SUBSET CommentSpacePositions}

AuthorAlphabet == {"/", "u", "s", "S", "sp", "official", "AutoModerator"}
Authors == SeqsUpTo(AuthorAlphabet, MaxAuthorLen)
Subreddits == {<<"s">>, <<"S">>, <<"u", "s">>}

IdlePost ==
    /\ md = <<>>
    /\ hn_url_to_discuss = <<>>
    /\ md2 = <<>>
    /\ md2b = <<>>
    /\ IdleSave

InitText ==
    /\ IdleReddit
    /\ IdleYt
    /\ IdlePost
    /\ IdlePick
    /\ IdleData
    /\ \/ /\ pc = "html"
          /\ frag \in Fragments
          /\ comment = <<>> /\ author = <<>> /\ subreddit = <<>>
       \/ /\ pc = "comment"
          /\ comment \in Comments
          /\ frag = <<>> /\ author = <<>> /\ subreddit = <<>>
       \/ /\ pc = "author"
          /\ author \in Authors
          /\ subreddit \in Subreddits
          /\ frag = <<>> /\ comment = <<>>
    /\ text1 = <<>>
    /\ text2 = <<>>
    /\ excerpt = <<>>
    /\ official = FALSE

Normalize ==
    /\ pc = "html"
    /\ text1' = html_to_text(frag)
    /\ pc' = "html_again"
    /\ UNCHANGED <<frag, text2, comment, excerpt, author, subreddit, official, OutsideText>>

NormalizeAgain ==
    /\ pc = "html_again"
    /\ text2' = html_to_text(text1)
    /\ pc' = "html_done"
    /\ UNCHANGED <<frag, text1, comment, excerpt, author, subreddit, official, OutsideText>>

\* lines 138-141 and 269-274
MakeExcerpt ==
    /\ pc = "comment"
    /\ excerpt' = Truncate(CommentText(comment))
    /\ pc' = "comment_done"
    /\ UNCHANGED <<frag, text1, text2, comment, author, subreddit, official, OutsideText>>

\* line 228
CheckOfficial ==
    /\ pc = "author"
    /\ official' = _looks_like_official_account(author, subreddit)
    /\ pc' = "author_done"
    /\ UNCHANGED <<frag, text1, text2, comment, excerpt, author, subreddit, OutsideText>>

NextText == Normalize \/ NormalizeAgain \/ MakeExcerpt \/ CheckOfficial

SpecText == InitText /\ [][NextText]_vars

\* C8: html_to_text is idempotent: applying it to its own output returns
\* that output, also for fragments holding escaped entities.
C8_HtmlToTextIdempotent ==
    pc = "html_done" => text2 = text1

\* C9: for a comment text longer than 520 characters the excerpt is at most
\* 521 characters long, ends with one ellipsis, and the text before the
\* ellipsis is a prefix of the comment text that ends where a space follows
\* in the input (never inside a word).
C9_ExcerptNeverSplitsWord ==
    (pc = "comment_done" /\ Len(CommentText(comment)) > ExcerptMax) =>
        LET txt == CommentText(comment)
            k == Len(excerpt) - 1
        IN  /\ Len(excerpt) <= ExcerptMax + 1
            /\ excerpt[Len(excerpt)] = "ellipsis"
            /\ Slice(excerpt, 1, k) = Slice(txt, 1, k)
            /\ txt[k + 1] = "sp"

\* the length bound alone
C9_ExcerptLength ==
    (pc = "comment_done" /\ Len(CommentText(comment)) > ExcerptMax) =>
        /\ Len(excerpt) <= ExcerptMax + 1
        /\ excerpt[Len(excerpt)] = "ellipsis"

\* the normalized author of the claim: trimmed, one leading "/u/" removed,
\* lower-cased
ClaimAuthor(a) == Lower(RemovePrefix(StripCh(a), <<"/", "u", "/">>))

\* C10: _looks_like_official_account is true exactly when the normalized
\* author is non-empty and is "automoderator", contains "official", or is
\* the lower-cased subreddit name, optionally followed by "_official" or
\* "official".
C10_OfficialExactly ==
    pc = "author_done" =>
        LET a == ClaimAuthor(author)
            s == Lower(subreddit)
        IN  official <=>
                /\ a # <<>>
                /\ \/ a = <<"automoderator">>
                   \/ \E i \in 1..Len(a) : a[i] = "official"
                   \/ a = s
                   \/ a = s \o <<"_", "official">>
                   \/ a = s \o <<"official">>

(***************************************************************************)
(* generate_briefing_data.py: the diversity selector and its history store *)
(*                                                                         *)
(* A URL is a number: 1..5 are the articles the feeds can offer (see       *)
(* NetLoc and Page), 0 is the empty string, numbers above 1000 are older   *)
(* articles that only occur in the history.                                *)
(***************************************************************************)
NumSources == 3         \* the pool is cut to its first NumSources sources
MaxN == 2               \* largest n a run is called with
LoadCap == 300          \* _load_antibubble_history: max_items
SaveCap == 500          \* _save_antibubble_history: urls[-500:]
FeedLimit == 15         \* _fetch_rss_entries(src.rss_url, limit=15)
min_domains == 2        \* pick_antibubble_items: min_domains
MainN == 3              \* main: pick_antibubble_items(now, n=3, ...)

\* ANTI_BUBBLE_SOURCES in pool order: 1 Aeon, 2 Arts & Letters Daily,
\* 3 Nautilus, 4 Quanta Magazine, 5 Smithsonian, 6 The Conversation,
\* 7 The Marginalian, 8 BBC Future, 9 JSTOR Daily, 10 Longreads
Sources == 1..NumSources

Seeds == {"2026-02-16", "2026-02-17"}

\* _stable_shuffle._key: the leading 16 bits of sha256(seed + "|" + rss_url);
\* they differ for all sources of one seed, so they order as the digests do
ShuffleKey(sd, src) ==
    IF sd = "2026-02-16"
    THEN <<38286, 1312, 30617, 8659, 56110, 18499, 23103, 8890, 44331, 36452>>[src]
    ELSE <<42243, 47774, 63659, 60404, 55427, 37750, 2601, 41826, 10430, 51415>>[src]

\* sorted(items, key): the item with i - 1 items before it comes i-th;
\* sorted is stable, equal keys keep the pool order
SortedByKey(items, key) ==
    LET Before(a, b) == key[a] < key[b] \/ (key[a] = key[b] /\ a < b)
        Rank(a) == 1 + Cardinality({b \in items : Before(b, a)})
    IN  [i \in 1..Cardinality(items) |-> CHOOSE a \in items : Rank(a) = i]

\* an ordering that depends on the process as well (what a per-process
\* salted hash would give)
_stable_shuffle_PerProcess(items, sd) ==
    SortedByKey(items, [a \in items |->
                          IF run = 1 THEN ShuffleKey(sd, a) ELSE 0 - ShuffleKey(sd, a)])

_stable_shuffle(items, sd) ==
    SortedByKey(items, [a \in items |-> ShuffleKey(sd, a)])

\* seq[-k:]
LastN(sq, k) == Slice(sq, Max(1, Len(sq) - k + 1), Len(sq))

Range(sq) == {sq[i] : i \in 1..Len(sq)}

\* lines 316-324: a missing or unreadable file loads as the empty history
_load_antibubble_history(file) == LastN(file, LoadCap)

Persisted_KeepOldest(lst) == Slice(lst, 1, Min(Len(lst), SaveCap))

\* line 331: urls[-500:]
Persisted(lst) == LastN(lst, SaveCap)

\* lines 327-333: a failed write is swallowed and leaves the file as it was
_save_antibubble_history(lst, written) ==
    /\ saved' = lst
    /\ stored' = written
    /\ writes' = writes + 1
    /\ hist_file' = IF written THEN Persisted(lst) ELSE hist_file

\* urlparse(url).netloc of the articles:
\*   1 https://aeon.co/a   2 https://AEON.CO/b   3 https://nautil.us/c
\*   4 https://nautil.us/members-only            5 /essays/d (relative)
NetLoc(url) ==
    CASE url = 1 -> "aeon.co"
      [] url = 2 -> "AEON.CO"
      [] url \in {3, 4} -> "nautil.us"
      [] OTHER -> ""

\* lines 89-93
domain_of(url) == LowerCh(NetLoc(url))

StartsWithHttp(url) == url \in 1..4

\* the answer to a GET of the article page
Page(url) == IF url = 4 THEN "paywall" ELSE "html"

\* lines 370-388
_url_fetch_seems_accessible(url) ==
    IF url = 0 \/ ~StartsWithHttp(url) THEN FALSE
    ELSE Page(url) \in {"html", "not_html"}

Ent(title, link) == [title |-> title, link |-> link]

\* entries without a link
Junk(k) == [i \in 1..k |-> Ent("t", 0)]

\* the entries of a source's feed document; <<>> also stands for a non-200
\* answer, a body that does not parse and a document without a channel
FeedOptions ==
    { <<>>,
      <<Ent("t", 1)>>,
      <<Ent("", 3), Ent("t", 1), Ent("t", 2)>>,
      <<Ent("t", 4), Ent("t", 5), Ent("t", 3)>>,
      Junk(FeedLimit - 1) \o <<Ent("t", 2), Ent("t", 3)>> }

\* lines 336-367: at most `limit` entries of the feed
_fetch_rss_entries(src, limit) == Slice(feeds[src], 1, Min(limit, Len(feeds[src])))

InHistory_Never(link, history_set) == FALSE

\* line 411
InHistory(link, history_set) == link \in history_set

\* lines 407-421: the entry passes every check
Accepted(ent, history_set) ==
    /\ ent.title # "" /\ ent.link # 0
    /\ ~InHistory(ent.link, history_set)
    /\ domain_of(ent.link) # ""
    /\ _url_fetch_seems_accessible(ent.link)

\* an inner loop that does not break on the first accepted entry: the last
\* accepted entry wins
FirstAccepted_Last(ents, history_set) ==
    LET okAt == {i \in 1..Len(ents) : Accepted(ents[i], history_set)}
    IN  IF okAt = {} THEN 0 ELSE CHOOSE i \in okAt : \A j \in okAt : i >= j

\* index of the entry the inner loop breaks on; 0 if it runs to the end
FirstAccepted(ents, history_set) ==
    LET okAt == {i \in 1..Len(ents) : Accepted(ents[i], history_set)}
    IN  IF okAt = {} THEN 0 ELSE CHOOSE i \in okAt : \A j \in okAt : i <= j

Filler(k) == [i \in 1..k |-> 1000 + i]

\* history files a run can start from
HistFiles ==
    { <<>>,
      <<1, 2>>,
      <<1>> \o Filler(LoadCap - 1),
      <<1>> \o Filler(LoadCap),
      Filler(SaveCap - 1) \o <<3>> }

\* arguments of a direct call of _save_antibubble_history
SaveArgs ==
    { Filler(SaveCap),
      Filler(SaveCap + 1),
      <<1, 2>> \o Filler(SaveCap) }

Links(ps) == [i \in 1..Len(ps) |-> ps[i].link]

NoRun == [history |-> <<>>, returned |-> <<>>, stored |-> FALSE]

PickReady ==
    /\ run = 1
    /\ ppc = "call"
    /\ ordered_sources = <<>>
    /\ pos = 0
    /\ history = <<>>
    /\ picks = <<>>
    /\ used_domains = {}
    /\ fetched = <<>>
    /\ returned = <<>>
    /\ first_run = NoRun
    /\ saved = <<>>
    /\ stored = FALSE
    /\ reads = 0
    /\ writes = 0

InitPick ==
    /\ IdleReddit
    /\ IdleYt
    /\ pc = "selection"
    /\ IdlePost
    /\ IdleText
    /\ IdleData
    /\ seed \in Seeds
    /\ pick_n \in 1..MaxN
    /\ feeds \in [Sources -> FeedOptions]
    /\ hist_file \in HistFiles
    /\ PickReady

\* lines 392-399
PickStart ==
    /\ pc \in {"selection", "antibubble"}
    /\ ppc = "call"
    /\ ordered_sources' = _stable_shuffle(Sources, seed)
    /\ history' = _load_antibubble_history(hist_file)
    /\ reads' = reads + 1
    /\ picks' = <<>>
    /\ used_domains' = {}
    /\ pos' = 1
    /\ ppc' = "loop"
    /\ UNCHANGED <<pc, seed, pick_n, feeds, hist_file, run, fetched, returned,
                   first_run, saved, stored, writes, dataVars, OutsideData>>

LoopStops ==
    \/ pos > Len(ordered_sources)
    \/ Len(picks) >= pick_n /\ Cardinality(used_domains) >= min_domains

\* lines 402-425: one iteration of the loop over the sources
ScanSource ==
    /\ ppc = "loop"
    /\ ~LoopStops
    /\ LET src == ordered_sources[pos]
           ents == _fetch_rss_entries(src, FeedLimit)
           k == FirstAccepted(ents, Range(history))
       IN  /\ fetched' = Append(fetched, src)
           /\ IF k = 0
              THEN UNCHANGED <<picks, used_domains>>
              ELSE /\ picks' = Append(picks, [source |-> src,
                                              title |-> ents[k].title,
                                              link |-> ents[k].link,
                                              domain |-> domain_of(ents[k].link)])
                   /\ used_domains' = used_domains \cup {domain_of(ents[k].link)}
    /\ pos' = pos + 1
    /\ UNCHANGED <<pc, seed, pick_n, feeds, hist_file, run, ppc, ordered_sources,
                   history, returned, first_run, saved, stored, reads, writes,
                   dataVars, OutsideData>>

\* a return that stores the links of every accepted candidate, the ones cut
\* by the truncation included
Finish_SaveAll ==
    /\ ppc = "loop"
    /\ LoopStops
    /\ LET kept == Slice(picks, 1, Min(pick_n, Len(picks)))
       IN  /\ picks' = kept
           /\ returned' = kept
           /\ IF picks # <<>>
              THEN \E written \in BOOLEAN :
                      _save_antibubble_history(history \o Links(picks), written)
              ELSE UNCHANGED <<hist_file, saved, stored, writes>>
    /\ ppc' = "returned"
    /\ UNCHANGED <<pc, seed, pick_n, feeds, run, ordered_sources, pos, history,
                   used_domains, fetched, first_run, reads, dataVars, OutsideData>>

\* lines 427-435: truncate, update the history, return
Finish ==
    /\ ppc = "loop"
    /\ LoopStops
    /\ LET kept == Slice(picks, 1, Min(pick_n, Len(picks)))
       IN  /\ picks' = kept
           /\ returned' = kept
           /\ IF kept # <<>>
              THEN \E written \in BOOLEAN :
                      _save_antibubble_history(history \o Links(kept), written)
              ELSE UNCHANGED <<hist_file, saved, stored, writes>>
    /\ ppc' = "returned"
    /\ UNCHANGED <<pc, seed, pick_n, feeds, run, ordered_sources, pos, history,
                   used_domains, fetched, first_run, reads, dataVars, OutsideData>>

\* the same call again: same date, same feeds and pages, the history file as
\* the first run left it
SecondRun ==
    /\ pc = "selection"
    /\ ppc = "returned"
    /\ run = 1
    /\ first_run' = [history |-> history, returned |-> returned,
                     stored |-> writes > 0 /\ stored]
    /\ run' = 2
    /\ ppc' = "call"
    /\ fetched' = <<>>
    /\ returned' = <<>>
    /\ reads' = 0
    /\ writes' = 0
    /\ UNCHANGED <<pc, seed, pick_n, feeds, hist_file, ordered_sources, pos,
                   history, picks, used_domains, saved, stored, dataVars,
                   OutsideData>>

\* a direct call of _save_antibubble_history with any list
DirectSave ==
    /\ pc = "selection"
    /\ ppc = "returned"
    /\ run = 2
    /\ \E lst \in SaveArgs, written \in BOOLEAN : _save_antibubble_history(lst, written)
    /\ ppc' = "end"
    /\ UNCHANGED <<pc, seed, pick_n, feeds, run, ordered_sources, pos, history,
                   picks, used_domains, fetched, returned, first_run, reads,
                   dataVars, OutsideData>>

NextPick == PickStart \/ ScanSource \/ Finish \/ SecondRun \/ DirectSave

SpecPick == InitPick /\ [][NextPick]_vars

SecondRunReturned == pc = "selection" /\ run = 2 /\ ppc = "returned"

Candidates(src) ==
    LET ents == Slice(feeds[src], 1, Min(FeedLimit, Len(feeds[src])))
    IN  {ents[i].link : i \in {j \in 1..Len(ents) :
            /\ ents[j].title # "" /\ ents[j].link # 0
            /\ NetLoc(ents[j].link) # ""
            /\ StartsWithHttp(ents[j].link) /\ Page(ents[j].link) # "paywall"}}

\* the last LoadCap entries of the file, by position
LoadedWindow(file) ==
    {file[i] : i \in {j \in 1..Len(file) : j > Len(file) - LoadCap}}

\* C5: no pick has a link that is in the history loaded at the start of the
\* run (the last 300 entries of the file), and a source whose candidates are
\* all in that history contributes no pick, also when fewer than n are left.
C5_NoPickFromHistory ==
    /\ ppc = "loop" =>
          /\ Range(history) = LoadedWindow(hist_file)
          /\ \A i \in 1..Len(picks) : picks[i].link \notin LoadedWindow(hist_file)
    /\ ppc = "returned" =>
          /\ \A i \in 1..Len(returned) : returned[i].link \notin Range(history)
          /\ \A src \in Sources :
                Candidates(src) \subseteq Range(history) =>
                    \A i \in 1..Len(returned) : returned[i].source # src

\* a scanned source had candidates, all in the history, and the run came back
\* with fewer than n picks
C5_Witness ==
    /\ ppc = "returned"
    /\ Len(returned) < pick_n
    /\ \E src \in Range(fetched) :
          Candidates(src) # {} /\ Candidates(src) \subseteq Range(history)

\* C6: the history file never holds more than 500 links, and a save of a list
\* longer than 500 stores exactly its last 500 links in their order.
C6_HistoryCapped ==
    /\ Len(hist_file) <= SaveCap
    /\ (stored /\ Len(saved) > SaveCap) =>
          /\ Len(hist_file) = SaveCap
          /\ \A i \in 1..SaveCap : hist_file[i] = saved[Len(saved) - SaveCap + i]
    /\ (stored /\ Len(saved) <= SaveCap) => hist_file = saved

\* a list longer than the cap, with a link among those to evict, was stored
C6_Witness ==
    /\ stored
    /\ Len(saved) > SaveCap
    /\ saved[1] \notin Range(hist_file)

(***************************************************************************)
(* generate_briefing_data.py: main                                         *)
(***************************************************************************)
NumStories == 2         \* ids in the topstories answer
NumSubs == 2            \* the subreddit list is cut to its first NumSubs

AllCategories == {"hn", "reddit", "antibubble", "readwise"}

NewSnapshot == [hn |-> <<>>, reddit |-> <<>>, antibubble |-> <<>>, readwise |-> "unset"]

\* the answers an HTTP GET of a JSON resource can have: a 200 with a body of
\* the expected shape, any other status (0 for a transport failure), or a
\* 200 with a body that is not JSON
JsonResponses == {"ok", "non200", "malformed"}

\* the answers for a subreddit or comment feed; in "link_without_href" the
\* document parses and an entry's link element has no href attribute
AtomResponses == {"ok", "non200", "unparsable", "link_without_href"}

ReadwiseResponses == {"no_token", "empty_token", "ok", "non200", "malformed"}

\* feeds and history of the runs of main
DataFeeds == [Sources -> {<<>>, <<Ent("t", 1)>>}]
DataHistFiles == {<<>>, <<1>>}

InitData ==
    /\ IdleReddit
    /\ IdleYt
    /\ pc = "hn"
    /\ IdlePost
    /\ IdleText
    /\ out = NewSnapshot
    /\ categories = {}
    /\ raised = ""
    /\ printed = FALSE
    /\ seed \in Seeds
    /\ pick_n = MainN
    /\ feeds \in DataFeeds
    /\ hist_file \in DataHistFiles
    /\ PickReady

\* an exception nothing catches ends main before the print
Crash(why) ==
    /\ pc' = "crashed"
    /\ raised' = why
    /\ UNCHANGED <<out, categories, printed>>

\* line 493, fetch_hn_top (lines 99-125)
DataFetchHn ==
    /\ pc = "hn"
    /\ \E top \in JsonResponses :
          IF top = "non200" THEN Crash("hn_topstories_non200")
          ELSE IF top = "malformed" THEN Crash("hn_topstories_malformed")
          ELSE \E item \in [1..NumStories -> JsonResponses] :
                  IF \E i \in 1..NumStories : item[i] = "malformed"
                  THEN Crash("hn_item_malformed")
                  ELSE LET got == {i \in 1..NumStories : item[i] = "ok"}
                           ids == SortedByKey(got, [i \in got |-> i])
                       IN  /\ out' = [out EXCEPT !.hn =
                                        [j \in 1..Len(ids) |->
                                            [id |-> ids[j], top_comments |-> "unset"]]]
                           /\ pc' = "hn_comments"
                           /\ UNCHANGED <<categories, raised, printed>>
    /\ UNCHANGED <<pickVars, OutsideData>>

\* lines 494-495, fetch_hn_top_comments_algolia (lines 128-154): every
\* failure is caught and gives []
DataFetchComments ==
    /\ pc = "hn_comments"
    /\ \E hits \in [1..Len(out.hn) -> JsonResponses] :
          out' = [out EXCEPT !.hn =
                    [j \in 1..Len(out.hn) |->
                        [out.hn[j] EXCEPT !.top_comments =
                            IF hits[j] = "ok" THEN "comments" ELSE "empty"]]]
    /\ categories' = categories \cup {"hn"}
    /\ pc' = "reddit"
    /\ UNCHANGED <<raised, printed, pickVars, OutsideData>>

\* lines 499-504: one subreddit, fetch_reddit_sub_rss (lines 180-235) and
\* fetch_reddit_comments_rss (lines 238-278) for its entry
DataFetchReddit ==
    /\ pc = "reddit"
    /\ Len(out.reddit) < NumSubs
    /\ \E sub \in AtomResponses, cmts \in AtomResponses :
          IF sub = "link_without_href" THEN Crash("reddit_link_without_href")
          ELSE IF sub = "ok" /\ cmts = "link_without_href"
               THEN Crash("reddit_comments_link_without_href")
          ELSE /\ out' = [out EXCEPT !.reddit = Append(@,
                            IF sub = "ok"
                            THEN [error |-> "none", entries |-> 1,
                                  top_comments |-> IF cmts = "ok" THEN "comments" ELSE "none"]
                            ELSE [error |-> sub, entries |-> 0, top_comments |-> "none"])]
               /\ pc' = "reddit"
               /\ UNCHANGED <<categories, raised, printed>>
    /\ UNCHANGED <<pickVars, OutsideData>>

\* line 505
DataRedditDone ==
    /\ pc = "reddit"
    /\ Len(out.reddit) = NumSubs
    /\ categories' = categories \cup {"reddit"}
    /\ pc' = "antibubble"
    /\ UNCHANGED <<out, raised, printed, pickVars, OutsideData>>

\* line 507: pick_antibubble_items has returned
DataTakePicks ==
    /\ pc = "antibubble"
    /\ ppc = "returned"
    /\ out' = [out EXCEPT !.antibubble = returned]
    /\ categories' = categories \cup {"antibubble"}
    /\ pc' = "readwise"
    /\ ppc' = "end"
    /\ UNCHANGED <<raised, printed, seed, pick_n, feeds, hist_file, run,
                   ordered_sources, pos, history, picks, used_domains, fetched,
                   returned, first_run, saved, stored, reads, writes, OutsideData>>

\* line 509, fetch_readwise_recent (lines 441-479)
DataFetchReadwise ==
    /\ pc = "readwise"
    /\ \E r \in ReadwiseResponses :
          IF r = "malformed" THEN Crash("readwise_malformed")
          ELSE /\ out' = [out EXCEPT !.readwise = r]
               /\ categories' = categories \cup {"readwise"}
               /\ pc' = "print"
               /\ UNCHANGED <<raised, printed>>
    /\ UNCHANGED <<pickVars, OutsideData>>

\* line 511
DataPrint ==
    /\ pc = "print"
    /\ printed' = TRUE
    /\ pc' = "exit"
    /\ UNCHANGED <<out, categories, raised, pickVars, OutsideData>>

NextData ==
    \/ DataFetchHn \/ DataFetchComments \/ DataFetchReddit \/ DataRedditDone
    \/ PickStart \/ ScanSource \/ Finish \/ DataTakePicks
    \/ DataFetchReadwise \/ DataPrint

SpecData == InitData /\ [][NextData]_vars

\* C3: the total failure of one source category (a non-200 status, status 0
\* or a malformed body) never aborts main: the run ends with every category
\* fetched and the snapshot printed.
C3_FailureNeverAborts ==
    pc \in {"exit", "crashed"} => printed /\ categories = AllCategories

(***************************************************************************)
(* generate_briefing_data.py: fetch_reddit_sub_rss                         *)
(*                                                                         *)
(* A title is the sequence of its words, a link a number (0: the empty     *)
(* string, -1: a link element without href attribute).                     *)
(***************************************************************************)
MaxEntries == 3         \* entries in a subreddit feed
MaxDesired == 2         \* largest `desired` of a call

PeriodWords == {"weekly", "monthly", "daily"}
ThreadWords == {"thread", "discussion", "check-in", "checkin"}
SingleWords == {"reminder", "rule", "advertising", "advertisement", "ama"}
WordPairs == {<<"discussion", "thread">>, <<"open", "thread">>, <<"community", "update">>}

\* REDDIT_RECURRING_TITLE_RE.search(title), on the words of the title
REDDIT_RECURRING_TITLE_RE(title) ==
    LET t == Lower(title)
    IN  \/ \E i, j \in 1..Len(t) : i < j /\ t[i] \in PeriodWords /\ t[j] \in ThreadWords
        \/ \E i \in 1..Len(t) : t[i] \in SingleWords
        \/ \E i \in 1..(Len(t) - 1) : <<t[i], t[i + 1]>> \in WordPairs

RedditEnt(title, link, a) == [title |-> title, link |-> link, author |-> a]

PlainAuthor == <<"/", "u", "/", "b">>

RedditEntries ==
    { RedditEnt(<<"plain">>, 1, PlainAuthor),
      RedditEnt(<<"plain">>, 2, PlainAuthor),
      RedditEnt(<<>>, 1, PlainAuthor),
      RedditEnt(<<"plain">>, 0, PlainAuthor),
      RedditEnt(<<"Weekly", "plain", "thread">>, 2, PlainAuthor),
      RedditEnt(<<"thread", "Weekly">>, 3, PlainAuthor),
      RedditEnt(<<"rules">>, 3, <<"/", "u", "/", "s">>),
      RedditEnt(<<"plain">>, 4, <<"/", "u", "/", "u", "s">>),
      RedditEnt(<<"plain">>, -1, PlainAuthor) }

RedditSubs == {<<"s">>, <<"u", "s">>}

\* lines 213-233: the filter loop
RECURSIVE FilterEntries(_, _, _, _, _)
FilterEntries(raw, sb, want, filtered, seen_links) ==
    IF raw = <<>> THEN filtered
    ELSE LET ent == Head(raw)
         IN  IF ent.title = <<>> \/ ent.link = 0
             THEN FilterEntries(Tail(raw), sb, want, filtered, seen_links)
             ELSE IF ent.link \in seen_links
             THEN FilterEntries(Tail(raw), sb, want, filtered, seen_links)
             ELSE IF \/ REDDIT_RECURRING_TITLE_RE(ent.title)
                     \/ _looks_like_official_account(ent.author, sb)
             THEN FilterEntries(Tail(raw), sb, want, filtered, seen_links \cup {ent.link})
             ELSE IF Len(filtered) + 1 >= want
             THEN Append(filtered, ent)
             ELSE FilterEntries(Tail(raw), sb, want, Append(filtered, ent),
                                seen_links \cup {ent.link})

RedditResult(err, ents, count, exc) ==
    [error |-> err, entries |-> ents, fetched |-> count, raised |-> exc]

\* lines 180-235; an entry whose link element has no href makes line 205
\* call strip() on None, which raises
fetch_reddit_sub_rss(resp, feed, sb, want, limit) ==
    IF resp = "non200" THEN RedditResult("http", <<>>, 0, FALSE)
    ELSE IF resp = "unparsable" THEN RedditResult("parse_error", <<>>, 0, FALSE)
    ELSE LET raw == Slice(feed, 1, Min(limit, Len(feed)))
         IN  IF \E i \in 1..Len(raw) : raw[i].link = -1
             THEN RedditResult("none", <<>>, 0, TRUE)
             ELSE RedditResult("none", FilterEntries(raw, sb, want, <<>>, {}),
                               Len(raw), FALSE)

InitReddit ==
    /\ pc = "reddit_call"
    /\ IdlePost
    /\ IdleText
    /\ IdlePick
    /\ IdleData
    /\ IdleYt
    /\ \/ /\ reddit_resp = "ok"
          /\ reddit_feed \in SeqsUpTo(RedditEntries, MaxEntries)
       \/ /\ reddit_resp \in {"non200", "unparsable"}
          /\ reddit_feed = <<>>
    /\ reddit_sub \in RedditSubs
    /\ desired \in 1..MaxDesired
    /\ max_fetch \in {MaxEntries - 1, MaxEntries}
    /\ reddit_out = <<>>

FetchRedditSub ==
    /\ pc = "reddit_call"
    /\ reddit_out' = fetch_reddit_sub_rss(reddit_resp, reddit_feed, reddit_sub,
                                          desired, max_fetch)
    /\ pc' = "reddit_returned"
    /\ UNCHANGED <<reddit_resp, reddit_feed, reddit_sub, desired, max_fetch,
                   OutsideReddit>>

NextReddit == FetchRedditSub

SpecReddit == InitReddit /\ [][NextReddit]_vars

\* the official account of the claim: contains "official", is AutoModerator
\* or carries the subreddit's name, after the "/u/" marker is removed
ClaimOfficial(a0, sb) ==
    LET a == ClaimAuthor(a0)
        s == Lower(sb)
    IN  /\ a # <<>>
        /\ \/ a = <<"automoderator">>
           \/ \E i \in 1..Len(a) : a[i] = "official"
           \/ a \in {s, s \o <<"_", "official">>, s \o <<"official">>}

\* positions of the first max_fetch entries that qualify: a title and a link,
\* the link not on an earlier titled entry, no recurring title, no official
\* author
Qualifying(feed, sb, limit) ==
    {i \in 1..Min(limit, Len(feed)) :
        /\ feed[i].title # <<>>
        /\ feed[i].link \notin {0, -1}
        /\ ~\E j \in 1..(i - 1) : feed[j].title # <<>> /\ feed[j].link = feed[i].link
        /\ ~REDDIT_RECURRING_TITLE_RE(feed[i].title)
        /\ ~ClaimOfficial(feed[i].author, sb)}

\* C11: on a 200 answer with a parseable feed fetch_reddit_sub_rss returns,
\* in feed order, the first `desired` qualifying entries among the first
\* max_fetch, or all of them when fewer qualify.
C11_RedditFirstDesired ==
    (pc = "reddit_returned" /\ reddit_resp = "ok") =>
        LET q == Qualifying(reddit_feed, reddit_sub, max_fetch)
            firsts == {i \in q : Cardinality({j \in q : j < i}) < desired}
            idx == SortedByKey(firsts, [i \in firsts |-> i])
        IN  /\ ~reddit_out.raised
            /\ reddit_out.entries = [k \in 1..Len(idx) |-> reddit_feed[idx[k]]]

(***************************************************************************)
(* update_briefing_post.py: pick_youtube_videos                            *)
(*                                                                         *)
(* A video is [channel, url, age, short]: age is now - published in days,  *)
(* short says that the URL contains "/shorts/".                            *)
(***************************************************************************)
NumChannels == 3        \* the channel pool is cut to its first NumChannels
MaxYtN == 3             \* largest n of a call
FeedMax == 6            \* fetch_channel_rss_videos(cid, name, max_items=6)
FirstWindow == 14       \* filter_days(14)
WideWindow == 30        \* filter_days(30)
MinRecent == 3          \* if len(recent) < 3

Channels == 1..NumChannels

Video(c, age) == [channel |-> c, url |-> <<c, age>>, age |-> age, short |-> FALSE]
Short(c, age) == [channel |-> c, url |-> <<c, age>>, age |-> age, short |-> TRUE]
\* an upload that every channel lists under the same URL
Joint(c, age) == [channel |-> c, url |-> <<0, age>>, age |-> age, short |-> FALSE]

\* the entries of a channel's feed; <<>> also stands for a channel whose id
\* does not resolve and for a feed that cannot be fetched or parsed
ChannelFeeds(c) ==
    { <<>>,
      <<Video(c, 2)>>,
      <<Video(c, 2), Video(c, 20)>>,
      <<Video(c, 10)>>,
      <<Short(c, 1), Video(c, 20)>>,
      <<Video(c, FirstWindow), Video(c, FirstWindow + 1)>>,
      <<Video(c, WideWindow + 1)>>,
      <<Joint(c, 3), Video(c, WideWindow)>>,
      [i \in 1..FeedMax |-> Short(c, i)] \o <<Video(c, 9)>> }

\* lines 216-239: at most max_items entries of the feed
fetch_channel_rss_videos(c, max_items) ==
    Slice(yt_feeds[c], 1, Min(max_items, Len(yt_feeds[c])))

\* lines 250-258: the uploads of the pool's channels, in pool order
Collect == Flatten([c \in Channels |-> fetch_channel_rss_videos(c, FeedMax)])

\* lines 267-269
filter_days(cands, days) ==
    LET In(v) == v.age <= days
    IN  SelectSeq(cands, In)

\* line 278: a stable sort, newest first
SortNewestFirst(recent) ==
    LET order == SortedByKey(1..Len(recent), [i \in 1..Len(recent) |-> recent[i].age])
    IN  [k \in 1..Len(recent) |-> recent[order[k]]]

UrlUsed_Never(v, used_urls) == FALSE

\* line 286
UrlUsed(v, used_urls) == v.url \in used_urls

\* lines 280-292: the greedy loop
RECURSIVE Greedy(_, _, _, _, _)
Greedy(recent, cnt, chosen, used_channels, used_urls) ==
    IF recent = <<>> THEN chosen
    ELSE LET v == Head(recent)
         IN  IF v.channel \in used_channels \/ UrlUsed(v, used_urls)
             THEN Greedy(Tail(recent), cnt, chosen, used_channels, used_urls)
             ELSE IF Len(chosen) + 1 >= cnt
             THEN Append(chosen, v)
             ELSE Greedy(Tail(recent), cnt, Append(chosen, v),
                         used_channels \cup {v.channel}, used_urls \cup {v.url})

\* lines 271-273
RecentWindow(cands) ==
    IF Len(filter_days(cands, FirstWindow)) < MinRecent
    THEN filter_days(cands, WideWindow)
    ELSE filter_days(cands, FirstWindow)

\* lines 266-294
pick_youtube_videos(cands, cnt) ==
    LET NotShort(v) == ~v.short
    IN  Greedy(SortNewestFirst(SelectSeq(RecentWindow(cands), NotShort)),
               cnt, <<>>, {}, {})

InitYt ==
    /\ pc = "yt_call"
    /\ IdlePost
    /\ IdleText
    /\ IdlePick
    /\ IdleData
    /\ IdleReddit
    /\ yt_feeds \in [Channels -> UNION {ChannelFeeds(c) : c \in Channels}]
    /\ \A c \in Channels : yt_feeds[c] \in ChannelFeeds(c)
    /\ yt_n \in 1..MaxYtN
    /\ candidates = <<>>
    /\ picked = <<>>
    /\ videos = <<>>

PickVideos ==
    /\ pc = "yt_call"
    /\ candidates' = Collect
    /\ picked' = pick_youtube_videos(Collect, yt_n)
    /\ pc' = "yt_returned"
    /\ UNCHANGED <<yt_feeds, yt_n, videos, patchVars, OutsideYt>>

NextYt == PickVideos

SpecYt == InitYt /\ [][NextYt]_vars

\* the window in force: 14 days, or 30 when fewer than 3 of the candidates
\* were published within 14 days
WindowInForce ==
    IF Cardinality({i \in 1..Len(candidates) : candidates[i].age <= FirstWindow}) < MinRecent
    THEN WideWindow
    ELSE FirstWindow

\* the non-short uploads of a channel within the window in force
Eligible(c) ==
    {candidates[i] : i \in {j \in 1..Len(candidates) :
        /\ candidates[j].channel = c
        /\ ~candidates[j].short
        /\ candidates[j].age <= WindowInForce}}

\* at most n videos, one per channel, newest first, no shorts, all within
\* the window in force
YtPicksWellFormed ==
    /\ Len(picked) <= yt_n
    /\ \A i, j \in 1..Len(picked) : i < j =>
          /\ picked[i].channel # picked[j].channel
          /\ picked[i].age <= picked[j].age
    /\ \A i \in 1..Len(picked) : picked[i] \in Eligible(picked[i].channel)

\* the pool {A: 2 days old, A: 20 days old, B: 10 days old}
YtExamplePool ==
    /\ yt_feeds[1] = <<Video(1, 2), Video(1, 20)>>
    /\ yt_feeds[2] = <<Video(2, 10)>>
    /\ \A c \in Channels \ {1, 2} : yt_feeds[c] = <<>>

YtExample ==
    (YtExamplePool /\ yt_n = 3) => picked = <<Video(1, 2), Video(2, 10)>>

\* C12 as stated: pick_youtube_videos returns at most n videos, no two of one
\* channel, newest first, no shorts, all within the window in force, each the
\* newest non-short in-window video of its channel; the example pool gives
\* [A 2 days old, B 10 days old].
C12_YoutubePicks ==
    pc = "yt_returned" =>
        /\ YtPicksWellFormed
        /\ \A i \in 1..Len(picked) :
              \A v \in Eligible(picked[i].channel) : picked[i].age <= v.age
        /\ YtExample

\* C12 amended: as above, but the returned URLs are pairwise distinct and each
\* returned video is the newest non-short in-window video of its channel
\* among those whose URL no earlier pick has.
C12_YoutubePicksDistinctUrls ==
    pc = "yt_returned" =>
        /\ YtPicksWellFormed
        /\ \A i, j \in 1..Len(picked) : i < j => picked[i].url # picked[j].url
        /\ \A i \in 1..Len(picked) :
              \A v \in Eligible(picked[i].channel) :
                  v.url \notin {picked[j].url : j \in 1..(i - 1)} =>
                      picked[i].age <= v.age
        /\ YtExample

\* a channel's newest upload was passed over because an earlier pick has its
\* URL, and an older upload of the channel was returned
C12_Witness ==
    /\ pc = "yt_returned"
    /\ \E i \in 1..Len(picked) :
          \E v \in Eligible(picked[i].channel) :
              /\ v.age < picked[i].age
              /\ v.url \in {picked[j].url : j \in 1..(i - 1)}

\* channels with a fetched non-short upload of the last 30 days
ChannelsWithRecentVideo ==
    {c \in Channels : \E i \in 1..Len(candidates) :
        /\ candidates[i].channel = c
        /\ ~candidates[i].short
        /\ candidates[i].age <= WideWindow}

\* C19: when at least 3 channels of the pool each have a non-short upload of
\* the last 30 days and n is at least 3, pick_youtube_videos returns at least
\* 3 and at most n videos.
C19_AtLeastThreeVideos ==
    (/\ pc = "yt_returned"
     /\ yt_n >= MinRecent
     /\ Cardinality(ChannelsWithRecentVideo) >= MinRecent)
        => (Len(picked) >= MinRecent /\ Len(picked) <= yt_n)

(***************************************************************************)
(* update_briefing_post.py: upsert_youtube_section                         *)
(***************************************************************************)
YTH == Tok("Y", <<>>)              \* "### YouTube"
H3 == Tok("3", <<>>)               \* "### Podcasts" : any other level-3 heading
H1 == Tok("1", <<>>)               \* "# Notes" : a level-1 heading
DASH == Tok("D", <<>>)             \* "-"
\* the placeholder "YouTube: not configured yet — add 3–5 channel IDs to
\* enable daily anti-bubble videos." in two parts: PHA is "YouTube: not
\* configured yet", PHB the rest
PHA == Tok("PA", <<>>)
PHB == Tok("PB", <<>>)
ITEM(v) == Tok("V", <<v>>)         \* "- **channel** (date) — [title](url)" of video v

\* offsets at which pat occurs in s
Occurrences(s, pat) ==
    {i \in 0..(Len(s) - Len(pat)) : Slice(s, i + 1, i + Len(pat)) = pat}

\* s.replace(pat, ""): the occurrences are removed from left to right, the
\* text is not scanned again
RECURSIVE Remove(_, _)
Remove(s, pat) ==
    LET occ == Occurrences(s, pat)
    IN  IF occ = {} THEN s
        ELSE LET i == CHOOSE x \in occ : \A y \in occ : x <= y
             IN  Slice(s, 1, i) \o Remove(Slice(s, i + Len(pat) + 1, Len(s)), pat)

\* lines 304-309
NewBlock(vs) == <<YTH, NL, NL>> \o Flatten([i \in 1..Len(vs) |-> <<ITEM(vs[i]), NL>>])

\* lines 297-326
upsert_youtube_section(s, vs) ==
    IF vs = <<>>
    THEN Remove(Remove(s, <<DASH, SP, PHA, PHB>>), <<PHA, PHB>>)
    ELSE IF HeaderSearchStart(s, "Y") # 0
    THEN LET start == HeaderSearchStart(s, "Y") - 1
             mend == HeaderSearchEnd(s, "Y")
             m2 == NextH2(Slice(s, mend + 1, Len(s)))
             end == mend + (IF m2 # -1 THEN m2 ELSE Len(s) - mend)
         IN  Slice(s, 1, start) \o NewBlock(vs) \o Slice(s, end + 1, Len(s))
    ELSE LET anti == extract_section(s, "A")
         IN  IF anti[1] # -1
             THEN RStrip(Slice(s, 1, anti[2])) \o <<NL, NL>> \o NewBlock(vs)
                      \o Slice(s, anti[2] + 1, Len(s))
             ELSE RStrip(s) \o <<NL, NL>> \o NewBlock(vs)

MaxUpLines == 4

UpLineSet ==
    { <<OTHERH>>, <<ANTIH>>, <<YTH>>, <<H3>>, <<H1>>, <<TXT>>, <<>>,
      <<DASH, SP, PHA, PHB>>, <<PHA, PHA, PHB, PHB>> }

UpDocs ==
    {JoinLines(ls, tr) : ls \in SeqsUpTo(UpLineSet, MaxUpLines), tr \in BOOLEAN}

VideoLists == {<<>>, <<1>>, <<2, 1>>}

InitUpsert ==
    /\ pc = "upsert"
    /\ IdleSave
    /\ IdleText
    /\ IdlePick
    /\ IdleData
    /\ IdleReddit
    /\ md \in UpDocs
    /\ hn_url_to_discuss = <<>>
    /\ md2 = <<>>
    /\ md2b = <<>>
    /\ yt_feeds = <<>>
    /\ candidates = <<>>
    /\ yt_n = 0
    /\ picked = <<>>
    /\ videos \in VideoLists

Upsert ==
    /\ pc = "upsert"
    /\ md2' = upsert_youtube_section(md, videos)
    /\ pc' = "upsert_again"
    /\ UNCHANGED <<md, hn_url_to_discuss, md2b, ytVars, OutsideYt>>

UpsertAgain ==
    /\ pc = "upsert_again"
    /\ md2b' = upsert_youtube_section(md2, videos)
    /\ pc' = "upserted"
    /\ UNCHANGED <<md, hn_url_to_discuss, md2, ytVars, OutsideYt>>

NextUpsert == Upsert \/ UpsertAgain

SpecUpsert == InitUpsert /\ [][NextUpsert]_vars

\* C13: upsert_youtube_section is idempotent, for an empty and a non-empty
\* video list: a second application to its own output changes nothing.
C13_UpsertIdempotent ==
    pc = "upserted" => md2b = md2

\* tokens that are a heading of rank 3 or higher ("###", "##", "#")
IsHeading(t) == t.k \in {"H", "A", "O", "Y", "3", "1"}

\* C14: with videos and an existing "### YouTube" heading only the YouTube
\* block is replaced, that is the text from the heading up to the next heading
\* of rank 3 or higher or the end of the document; the text before and after
\* it is unchanged.
C14_ReplacesOnlyBlock ==
    (/\ pc \in {"upsert_again", "upserted"}
     /\ videos # <<>>
     /\ HeaderSearchStart(md, "Y") # 0)
        => LET i == HeaderSearchStart(md, "Y")
               later == {j \in (i + 1)..Len(md) : IsHeading(md[j]) /\ AtLineStart(md, j)}
               nxt == IF later = {} THEN Len(md) + 1
                      ELSE CHOOSE j \in later : \A x \in later : j <= x
           IN  md2 = Slice(md, 1, i - 1) \o NewBlock(videos) \o Slice(md, nxt, Len(md))

(***************************************************************************)
(* Claims about the text outside the Hacker News section                   *)
(***************************************************************************)
\* position of the newline that ends the line of the token at i (Len when the
\* line is the unterminated last one)
LineEnd(s, i) ==
    LET nls == {j \in i..Len(s) : s[j] = NL}
    IN  IF nls = {} THEN Len(s) ELSE CHOOSE j \in nls : \A x \in nls : j <= x

\* position of the first "## " heading after position e (Len + 1 when none)
NextSectionStart(s, e) ==
    LET later == {j \in (e + 1)..Len(s) : IsH2(s[j]) /\ AtLineStart(s, j)}
    IN  IF later = {} THEN Len(s) + 1 ELSE CHOOSE j \in later : \A x \in later : j <= x

\* C15: add_hn_discussion_links changes nothing outside the Hacker News
\* section: the output starts with the input's text up to the end of the
\* section's heading line and ends with the input's text from the next "## "
\* heading (or the end of the document) onward, the rewritten body in between;
\* a document without the heading is returned unchanged.
C15_OutsideSectionUnchanged ==
    pc \in {"repatch", "patched"} =>
        LET i == HeaderSearchStart(md, "H")
        IN  IF i = 0 THEN md2 = md
            ELSE LET e == LineEnd(md, i)
                     nxt == NextSectionStart(md, e)
                     tail == Len(md) - nxt + 1
                 IN  /\ Len(md2) >= e + tail
                     /\ Slice(md2, 1, e) = Slice(md, 1, e)
                     /\ Slice(md2, Len(md2) - tail + 1, Len(md2)) = Slice(md, nxt, Len(md))

\* a document with a section before and a section after the Hacker News
\* section, whose Hacker News section got a discussion line
C15_Witness ==
    /\ pc = "patched"
    /\ HeaderSearchStart(md, "H") > 1
    /\ md[1] = OTHERH
    /\ NextSectionStart(md, LineEnd(md, HeaderSearchStart(md, "H"))) <= Len(md)
    /\ CountKind(md2, "HD") > CountKind(md, "HD")

(***************************************************************************)
(* Claims about the history store within one run                           *)
(***************************************************************************)
\* the fetched sources whose scan ended with an accepted candidate, in scan order
AcceptedAt(src) == FirstAccepted(_fetch_rss_entries(src, FeedLimit), Range(history))

Contributing == {i \in 1..Len(fetched) : AcceptedAt(fetched[i]) # 0}

\* C16: in one run the history store is read exactly once, before any source
\* is scanned, and written at most once, after the selection has finished.
\* When a pick is returned the list written is the loaded history followed by
\* the links of exactly the returned picks in pick order, stored capped to its
\* last 500; when no pick is returned nothing is written.  Links of accepted
\* candidates cut by the truncation to n are not added.
C16_HistoryReadOnceWrittenOnce ==
    /\ ppc = "call" => reads = 0 /\ writes = 0 /\ fetched = <<>>
    /\ ppc = "loop" => reads = 1 /\ writes = 0
    /\ ppc = "returned" =>
          /\ reads = 1
          /\ returned = <<>> => writes = 0
          /\ returned # <<>> =>
                /\ writes = 1
                /\ saved = history \o Links(returned)
                /\ Len(saved) = Len(history) + Len(returned)
                /\ stored => hist_file = LastN(saved, SaveCap)

\* more candidates were accepted than n, the run returned n picks and stored
\* a history that lacks the link of a candidate that was cut
C16_Witness ==
    /\ ppc = "returned"
    /\ returned # <<>>
    /\ stored
    /\ Cardinality(Contributing) > Len(returned)
    /\ \E i \in Contributing :
          LET src == fetched[i]
              link == _fetch_rss_entries(src, FeedLimit)[AcceptedAt(src)].link
          IN  link \notin Range(hist_file)

(***************************************************************************)
(* Claims about the picks of one run                                       *)
(***************************************************************************)
DomainsOf(ps) == {ps[i].domain : i \in 1..Len(ps)}

\* C18: whenever the source loop accepted candidates from at least
\* min_domains distinct domains, the list returned after the truncation to n
\* has at least min_domains distinct domains.
C18_DiversitySurvivesTruncation ==
    (ppc = "returned" /\ Cardinality(used_domains) >= min_domains)
        => Cardinality(DomainsOf(returned)) >= min_domains

(***************************************************************************)
(* Claims about the map main builds and the patched post                   *)
(***************************************************************************)
\* the line is a link line in either form, "Link: URL" or "- **Link:** URL"
IsLinkLine(line) == 1 \in LinkLineMatches(line)

LinkLineUrlOf(line) == CatV(Slice(line, 1, SolidEnd(line, 1)))

\* the output line starts with the link line and the discussion line for d
\* comes right after it
FollowedByDiscussion(outl, k, line, d) ==
    LET head == RStrip(line)
        rest == Slice(outl[k], Len(head) + 1, Len(outl[k]))
    IN  /\ Len(outl[k]) >= Len(head)
        /\ Slice(outl[k], 1, Len(head)) = head
        /\ \/ rest = <<HD(d), NL>>
           \/ /\ \A j \in 1..Len(rest) : IsWs(rest[j])
              /\ k + 1 <= Len(outl)
              /\ outl[k + 1] = <<HD(d), NL>>

\* C17: every URL that is a key of the map main builds has the line
\* "HN discussion: <url>" after each of its link lines of the Hacker News
\* section in the patched post, whichever of the two forms the link line has,
\* unless the link line is already followed by a discussion line.
C17_EveryMapKeyGetsDiscussion ==
    pc # "main" =>
        LET lines == HnSectionLines(md)
            outl == HnOutputLines(md, md2)
            m == hn_url_to_discuss
        IN  \A i \in 1..Len(lines) :
                (/\ IsLinkLine(lines[i])
                 /\ LinkLineUrlOf(lines[i]) \in DOMAIN m
                 /\ ~AlreadyFollowed(lines, i))
                    => \E k \in 1..Len(outl) :
                          FollowedByDiscussion(outl, k, lines[i], m[LinkLineUrlOf(lines[i])])

\* the entry passes every acceptance check of the loop: title and link are
\* not empty, the link is not in the loaded history, it has a domain and its
\* page is reachable and no paywall
Passes(ent) ==
    /\ ent.title # "" /\ ent.link # 0
    /\ ent.link \notin Range(history)
    /\ NetLoc(ent.link) # ""
    /\ StartsWithHttp(ent.link) /\ Page(ent.link) # "paywall"

\* the first FeedLimit entries of the feed of src
FirstEntries(src) == Slice(feeds[src], 1, Min(FeedLimit, Len(feeds[src])))

\* the first passing entry of src, <<>> when there is none
FirstPassing(src) ==
    LET ents == FirstEntries(src)
        good == {i \in 1..Len(ents) : Passes(ents[i])}
    IN  IF good = {} THEN <<>>
        ELSE <<ents[CHOOSE i \in good : \A j \in good : i <= j]>>

\* position of src in the date-seeded order
OrderIndex(src) == CHOOSE i \in 1..Len(ordered_sources) : ordered_sources[i] = src

\* n picks covering min_domains domains are collected from the first j sources
\* of the order
EnoughAfter(j) ==
    LET got == {i \in 1..j : FirstPassing(ordered_sources[i]) # <<>>}
        doms == {LowerCh(NetLoc(FirstPassing(ordered_sources[i])[1].link)) : i \in got}
    IN  Cardinality(got) >= pick_n /\ Cardinality(doms) >= min_domains

\* C20: the run returns at most n picks, at most one per source, in the
\* date-seeded source order, each with a title, a link and a domain; the pick
\* of a source is the first of its first 15 feed entries that passes every
\* check; and no source is fetched after the point where n picks covering
\* min_domains domains are collected.
C20_PicksWellFormed ==
    ppc = "returned" =>
        /\ Len(returned) <= pick_n
        /\ \A i, j \in 1..Len(returned) :
              i < j => OrderIndex(returned[i].source) < OrderIndex(returned[j].source)
        /\ \A i \in 1..Len(returned) :
              /\ returned[i].title # "" /\ returned[i].link # 0 /\ returned[i].domain # ""
              /\ FirstPassing(returned[i].source) # <<>>
              /\ returned[i].title = FirstPassing(returned[i].source)[1].title
              /\ returned[i].link = FirstPassing(returned[i].source)[1].link
        /\ fetched = Slice(ordered_sources, 1, Len(fetched))
        /\ \A j \in 1..Len(fetched) : ~EnoughAfter(j - 1)

\* two picks came back, one of them not the first entry of its feed, and the
\* scan stopped before the last source with picks from two domains
C20_Witness ==
    /\ ppc = "returned"
    /\ Len(returned) = 2
    /\ Len(fetched) < Len(ordered_sources)
    /\ Cardinality(DomainsOf(returned)) = 2
    /\ \E i \in 1..Len(returned) :
          returned[i].link # feeds[returned[i].source][1].link

\* C21: the picks returned by one run have pairwise distinct links, and the
\* run appends a link to the history at most once, also when the feeds of two
\* sources offer the same article URL.
C21_DistinctLinks ==
    ppc = "returned" =>
        /\ \A i, j \in 1..Len(returned) : i # j => returned[i].link # returned[j].link
        /\ writes > 0 =>
              LET added == Slice(saved, Len(history) + 1, Len(saved))
              IN  \A i, j \in 1..Len(added) : i # j => added[i] # added[j]

(***************************************************************************)
(* Claims about the history and the snapshot of one run of main            *)
(***************************************************************************)
\* the links the run added to the persisted history
AddedToHistory == Range(hist_file) \ Range(history)

\* C22: when a run of main has ended, every link it added to the persisted
\* anti-bubble history is in the "antibubble" list of a snapshot the run
\* printed; a run that ends without printing leaves no pick in the history.
C22_HistoryOnlyIfPrinted ==
    (pc \in {"exit", "crashed"} /\ reads > 0) =>
        \A link \in AddedToHistory :
            printed /\ link \in Range(Links(out.antibubble))

====
